---- MODULE Spec2Model ----
(***************************************************************************)
(* Country/currency cache: the refresh pipeline of                         *)
(* src/services/refresh_service.rs (refresh_cache) over the MySQL tables   *)
(* `countries` and `app_meta`, with the handlers of                        *)
(* src/handlers/countries.rs that read or delete the cached rows.          *)
(*                                                                         *)
(* Strings are sequences of one-character strings, so that trim() and the  *)
(* case-insensitive comparison of names are computed, not assumed.         *)
(* Option<T> is a sequence of length 0 (None) or 1 (Some).                 *)
(* Time is one clock counted in ticks; MySQL's NOW() yields whole seconds  *)
(* (TicksPerSecond ticks each), chrono's Utc::now() yields the tick.       *)
(*                                                                         *)
(* Spec serves requests one at a time; TimedSpec is Spec with the clock    *)
(* moving on between two refreshes; ConcSpec interleaves two refreshes     *)
(* and a status reader over row locks; EstSpec evaluates the estimate of   *)
(* one catalog record on its own; RaceSpec runs two refreshes that take    *)
(* the same rows, under weak fairness; DisjointSpec runs two refreshes of  *)
(* rows of their own while time passes; FaultSpec serves requests one at a *)
(* time with a population below zero in the catalog and an image           *)
(* directory that can go.                                                  *)
(***************************************************************************)
EXTENDS Integers, Sequences, FiniteSets, TLC

\* ---------------------------------------------------------------- bounds
\* longest catalog the entity source returns
MaxCatalog == 2
\* last tick of the clock
MaxClock == 1
\* clock ticks in one second of the store's NOW()
TicksPerSecond == 1
\* largest population, and largest rate, the estimate is evaluated on
MaxPopulation == 2
MaxRate == 2

\* ------------------------------------------------------- program constants
\* rng.gen_range(1000.0..=2000.0)
MultLo == 1000
MultHi == 2000
\* the draws of the multiplier that the model follows: both ends of the range
Multipliers == {MultLo, MultHi}
\* `(1..=200).contains(&limit)`
MaxLimit == 200

\* ------------------------------------------------------------ Option, str
None == <<>>
Some(x) == <<x>>

IsSpace(ch) == ch = " "

RECURSIVE TrimStart(_)
TrimStart(s) ==
    IF s = <<>> THEN <<>>
    ELSE IF IsSpace(Head(s)) THEN TrimStart(Tail(s)) ELSE s

RECURSIVE TrimEnd(_)
TrimEnd(s) ==
    IF s = <<>> THEN <<>>
    ELSE IF IsSpace(s[Len(s)]) THEN TrimEnd(SubSeq(s, 1, Len(s) - 1)) ELSE s

\* str::trim
Trim(s) == TrimEnd(TrimStart(s))

\* Option<String>::map(|s| s.trim().to_string())
TrimOpt(o) == IF o = None THEN None ELSE Some(Trim(o[1]))

LowerChar(ch) ==
    CASE ch = "N" -> "n"
      [] ch = "G" -> "g"
      [] ch = "A" -> "a"
      [] OTHER -> ch

\* SQL LOWER(), and the folding of the case-insensitive collation
Lower(s) == [i \in 1..Len(s) |-> LowerChar(s[i])]

\* the unique key of table countries: name under a case-insensitive collation
KeyOf(name) == Lower(name)

\* ------------------------------------------------------- external payloads
NGN == <<"N", "G", "N">>
GHS == <<"G", "H", "S">>

RcNigeria ==
    [name |-> <<"N">>, capital |-> Some(<<"A", " ">>), region |-> Some(<<" ", "A">>),
     population |-> Some(2), flag |-> Some(<<"f">>),
     currencies |-> Some(<<[code |-> Some(<<"N", "G", "N", " ">>)]>>)]

\* the same natural key as RcNigeria (other case, padded), nothing else given
RcNigeriaBare ==
    [name |-> <<" ", "n">>, capital |-> None, region |-> None,
     population |-> None, flag |-> None, currencies |-> None]

RcGhana ==
    [name |-> <<"G">>, capital |-> None, region |-> Some(<<"A">>),
     population |-> Some(4), flag |-> None,
     currencies |-> Some(<<[code |-> Some(GHS)], [code |-> Some(NGN)]>>)]

RcCountry == {RcNigeria, RcNigeriaBare, RcGhana}

RECURSIVE SeqsUpTo(_, _)
SeqsUpTo(S, n) ==
    IF n = 0 THEN {<<>>}
    ELSE LET shorter == SeqsUpTo(S, n - 1)
         IN  shorter \cup {Append(s, x) : s \in shorter, x \in S}

\* Vec<RcCountry>: what the entity source can answer
Catalogs == SeqsUpTo(RcCountry, MaxCatalog)

\* ErRates.rates: GHS is never rated; NGN has a positive rate, or one that is
\* not positive
ErRates == {(NGN :> 2), (NGN :> 0)}

\* a body that does not deserialize into the expected type
Unparseable == [parses |-> FALSE, json |-> <<>>]
Json(v) == [parses |-> TRUE, json |-> v]

\* what one GET can yield: no response at all (send() fails: network error,
\* timeout), or a response with a status and a body
NetErr == [net |-> FALSE, status |-> 0, body |-> Unparseable]
Responses(payloads) ==
    {NetErr} \cup
    {[net |-> TRUE, status |-> st, body |-> b] :
        st \in {200, 500}, b \in {Json(v) : v \in payloads} \cup {Unparseable}}

\* ------------------------------------------------------------------ state
Procs == {"r1", "r2"}
\* the call that runs when requests are served one at a time
Worker == "r1"

VARIABLES
    countries,      \* table countries: key -> row (committed)
    app_meta,       \* app_meta['last_refreshed_at']: None or Some(tick)
    clock,          \* the time, in ticks
    image,          \* whether the summary image file exists
    pc,             \* where each refresh_cache call stands
    rc_countries,   \* local `countries`: the fetched catalog
    rates_resp,     \* local `rates_resp.rates`
    idx,            \* position of the `for c in countries` loop
    inserted,       \* local `inserted`
    updated,        \* local `updated`
    now_iso,        \* local `now_iso`
    tx,             \* the open transaction: its uncommitted writes
    result,         \* what the call returned
    hist,           \* history of the call, read by the properties only
    response,       \* the answer of the read, delete or image request in flight
    estimate,       \* one evaluation of the estimate: its arguments, its value
    dir             \* whether the directory of the summary image exists

vars == <<countries, app_meta, clock, image, pc, rc_countries, rates_resp, idx,
          inserted, updated, now_iso, tx, result, hist, response, estimate, dir>>

store == <<countries, app_meta>>
locals == <<rc_countries, rates_resp, idx, inserted, updated, now_iso>>
\* what no step of refresh_cache touches
aside == <<response, estimate, dir>>

NoTx == [open |-> FALSE, rows |-> <<>>, meta |-> None]
NoResult == [kind |-> "none"]
\* pre_*: the store when the call began; began: a transaction was opened;
\* bad_status: a source answered with a status that is not a success;
\* fetch_failed: a fetch returned the error; tx_failed: a statement of the
\* transaction, or its commit, returned the error; committed: the commit
\* returned Ok; after: the calls in flight whose commit came before this one;
\* render: how build_summary_image ended ("none": not run); total, top5: what
\* its two queries returned; at_top5: the number of rows the table held when
\* the second query ran
NoHist == [pre_countries |-> <<>>, pre_meta |-> None, began |-> FALSE,
           bad_status |-> FALSE, fetch_failed |-> FALSE, tx_failed |-> FALSE,
           committed |-> FALSE, after |-> {}, render |-> "none",
           total |-> 0, top5 |-> {}, at_top5 |-> 0]

\* no request other than a refresh is in flight
NoResponse == [handler |-> "none"]
\* the estimate is not under evaluation
NoEst == [called |-> FALSE]

Started ==
    /\ countries = <<>>
    /\ app_meta = None
    /\ clock = 0
    /\ image = FALSE
    /\ pc = [p \in Procs |-> "idle"]
    /\ rc_countries = [p \in Procs |-> <<>>]
    /\ rates_resp = [p \in Procs |-> <<>>]
    /\ idx = [p \in Procs |-> 1]
    /\ inserted = [p \in Procs |-> 0]
    /\ updated = [p \in Procs |-> 0]
    /\ now_iso = [p \in Procs |-> 0]
    /\ tx = [p \in Procs |-> NoTx]
    /\ result = [p \in Procs |-> NoResult]
    /\ hist = [p \in Procs |-> NoHist]
    /\ response = NoResponse
    /\ dir = TRUE

Init == Started /\ estimate = NoEst

\* ------------------------------------------------------ refresh_cache: pure
\* the fields bound to the upsert, from one catalog record
FirstCode(c) ==
    IF c.currencies = None THEN None
    ELSE LET v == c.currencies[1]
         IN  IF v = <<>> THEN None
             ELSE IF v[1].code = None THEN None
             ELSE Some(Trim(v[1].code[1]))

\* mutant of Estimate: a code the table does not rate is treated as no code
EstimateZeroWhenUnrated(population, currency_code, rates, multiplier) ==
    IF currency_code = None THEN <<None, Some(0)>>
    ELSE LET code == currency_code[1]
         IN  IF code \notin DOMAIN rates THEN <<None, Some(0)>>
             ELSE IF rates[code] > 0
                  THEN <<Some(rates[code]),
                         Some((population * multiplier) \div rates[code])>>
                  ELSE <<None, None>>

\* mutant of Estimate: the product is multiplied by the rate
EstimateTimesRate(population, currency_code, rates, multiplier) ==
    IF currency_code = None THEN <<None, Some(0)>>
    ELSE LET code == currency_code[1]
         IN  IF code \notin DOMAIN rates THEN <<None, None>>
             ELSE IF rates[code] > 0
                  THEN <<Some(rates[code]),
                         Some((population * multiplier) * rates[code])>>
                  ELSE <<None, None>>

\* (exchange_rate, estimated_gdp) for one record; multiplier is the rng's draw.
\* The division is the integer one: exact on the sample catalog, rounded down
\* elsewhere, as the f64 division rounds.
Estimate(population, currency_code, rates, multiplier) ==
    IF currency_code = None THEN <<None, Some(0)>>
    ELSE LET code == currency_code[1]
         IN  IF code \notin DOMAIN rates THEN <<None, None>>
             ELSE IF rates[code] > 0
                  THEN <<Some(rates[code]),
                         Some((population * multiplier) \div rates[code])>>
                  ELSE <<None, None>>

\* mutant of Normalize: the name is bound as the source gave it
NormalizeUntrimmed(c, rates, multiplier) ==
    LET population == IF c.population = None THEN 0 ELSE c.population[1]
        currency_code == FirstCode(c)
        est == Estimate(population, currency_code, rates, multiplier)
    IN  [name |-> c.name,
         capital |-> TrimOpt(c.capital),
         region |-> TrimOpt(c.region),
         population |-> population,
         currency_code |-> currency_code,
         exchange_rate |-> est[1],
         estimated_gdp |-> est[2],
         flag_url |-> TrimOpt(c.flag)]

\* one record of the catalog, as refresh_cache binds it: name, capital,
\* region and flag trimmed, population or 0, the first currency code, the
\* estimate
Normalize(c, rates, multiplier) ==
    LET population == IF c.population = None THEN 0 ELSE c.population[1]
        currency_code == FirstCode(c)
        est == Estimate(population, currency_code, rates, multiplier)
    IN  [name |-> Trim(c.name),
         capital |-> TrimOpt(c.capital),
         region |-> TrimOpt(c.region),
         population |-> population,
         currency_code |-> currency_code,
         exchange_rate |-> est[1],
         estimated_gdp |-> est[2],
         flag_url |-> TrimOpt(c.flag)]

\* mutant of Classify: the two counters exchanged
ClassifySwapped(n) ==
    IF n = 1 THEN <<0, 1>>
    ELSE IF n = 2 THEN <<1, 0>>
    ELSE <<0, 0>>

\* `if n == 1 { inserted += 1 } else if n == 2 { updated += 1 }`
Classify(n) ==
    IF n = 1 THEN <<1, 0>>
    ELSE IF n = 2 THEN <<0, 1>>
    ELSE <<0, 0>>

\* ------------------------------------------- the estimate, evaluated alone
\* `population`: c.population.unwrap_or(0), an i64
EstPopulations == -1..MaxPopulation
\* `currency_code`: none, a code, or the empty code
EstCodes == {None, Some(NGN), Some(GHS), Some(<<>>)}
\* rates of a rate table: an f64, positive or not
EstRates == -1..MaxRate
\* `rates_resp.rates`: no code, one code or both codes rated
EstRateTables ==
    {<<>>}
    \cup {(NGN :> r) : r \in EstRates}
    \cup {(NGN :> r) @@ (GHS :> q) : r \in EstRates, q \in EstRates}
\* draws of rng.gen_range(1000.0..=2000.0): the ends and the middle
EstMultipliers == {MultLo, (MultLo + MultHi) \div 2, MultHi}

\* the arguments one turn of the loop hands to the match on currency_code
EstInit ==
    /\ Started
    /\ estimate \in {[called |-> FALSE, population |-> n, currency_code |-> c,
                       rates |-> t, out |-> <<>>] :
                         n \in EstPopulations, c \in EstCodes, t \in EstRateTables}

\* `let (exchange_rate, estimated_gdp) = match currency_code.as_deref() {..}`
EstimateCall ==
    /\ ~estimate.called
    /\ \E multiplier \in EstMultipliers :
          estimate' = [estimate EXCEPT
                          !.called = TRUE,
                          !.out = Estimate(estimate.population, estimate.currency_code,
                                           estimate.rates, multiplier)]
    /\ UNCHANGED <<store, clock, image, pc, locals, tx, result, hist, response, dir>>

EstNext == EstimateCall

\* the estimate on every population, code and rate table of the bounds
EstSpec == EstInit /\ [][EstNext]_vars

\* ---------------------------------------------------------------- the store
\* MySQL's NOW(): the second of the statement
Now == clock \div TicksPerSecond
\* chrono's Utc::now()
UtcNow == clock
\* the second an instant of Utc::now() falls in
SecondOf(t) == t \div TicksPerSecond

\* f overridden by g
Overlay(f, g) ==
    [k \in DOMAIN f \cup DOMAIN g |-> IF k \in DOMAIN g THEN g[k] ELSE f[k]]

\* the rows a statement of transaction t reads: the committed rows under its
\* own uncommitted writes
TxView(t) == Overlay(countries, t.rows)

\* mutant of Committed: the refresh replaces the table by the rows it wrote
CommittedReplacing(rows, t) == t.rows

\* mutant of Committed: a row the store already holds is kept as it is
CommittedKeepingStored(rows, t) == Overlay(t.rows, rows)

\* the stored rows once transaction t has committed
Committed(rows, t) == Overlay(rows, t.rows)

\* rows_affected of INSERT .. ON DUPLICATE KEY UPDATE for an existing row set
\* to the values it already holds: 0, or 1 on a connection opened with
\* CLIENT_FOUND_ROWS
UnchangedAffected == {0, 1}

\* mutant of UpsertRow: flag_url=VALUES(flag_url) left out of the update list
UpsertRowKeepingFlag(view, v) ==
    LET k == KeyOf(v.name)
    IN  IF k \in DOMAIN view
        THEN [view[k] EXCEPT !.capital = v.capital,
                             !.region = v.region,
                             !.population = v.population,
                             !.currency_code = v.currency_code,
                             !.exchange_rate = v.exchange_rate,
                             !.estimated_gdp = v.estimated_gdp,
                             !.last_refreshed_at = Now]
        ELSE [name |-> v.name,
              capital |-> v.capital,
              region |-> v.region,
              population |-> v.population,
              currency_code |-> v.currency_code,
              exchange_rate |-> v.exchange_rate,
              estimated_gdp |-> v.estimated_gdp,
              flag_url |-> v.flag_url,
              last_refreshed_at |-> Now]

\* INSERT INTO countries (..) VALUES (.., NOW()) ON DUPLICATE KEY UPDATE ..:
\* the row written for v over the rows `view`
UpsertRow(view, v) ==
    LET k == KeyOf(v.name)
    IN  IF k \in DOMAIN view
        THEN [view[k] EXCEPT !.capital = v.capital,
                             !.region = v.region,
                             !.population = v.population,
                             !.currency_code = v.currency_code,
                             !.exchange_rate = v.exchange_rate,
                             !.estimated_gdp = v.estimated_gdp,
                             !.flag_url = v.flag_url,
                             !.last_refreshed_at = Now]
        ELSE [name |-> v.name,
              capital |-> v.capital,
              region |-> v.region,
              population |-> v.population,
              currency_code |-> v.currency_code,
              exchange_rate |-> v.exchange_rate,
              estimated_gdp |-> v.estimated_gdp,
              flag_url |-> v.flag_url,
              last_refreshed_at |-> Now]

\* the keys whose rows other open transactions have written and hold locked
\* until they commit or roll back
LockedByOthers(p) == UNION {DOMAIN tx[q].rows : q \in Procs \ {p}}

\* the app_meta row is locked by the REPLACE of another open transaction
MetaLockedByOthers(p) == \E q \in Procs \ {p} : tx[q].meta # None

\* the rows_affected values the statement can report
RowsAffected(view, v) ==
    LET k == KeyOf(v.name)
    IN  IF k \notin DOMAIN view THEN {1}
        ELSE IF UpsertRow(view, v) = view[k] THEN UnchangedAffected
        ELSE {2}

\* ------------------------------------------------------------ refresh_cache
Idle ==
    /\ \A q \in Procs : pc[q] = "idle"
    /\ response = NoResponse

\* `?` on an Err: the call returns it; a transaction in scope is dropped,
\* which rolls it back
Fail(p, kind) ==
    /\ pc' = [pc EXCEPT ![p] = "done"]
    /\ result' = [result EXCEPT ![p] = [kind |-> kind]]
    /\ tx' = [tx EXCEPT ![p] = NoTx]

\* POST /countries/refresh enters refresh_cache
RefreshStart(p) ==
    /\ Idle
    /\ p = Worker
    /\ pc' = [pc EXCEPT ![p] = "fetch_countries"]
    /\ hist' = [hist EXCEPT ![p] = [NoHist EXCEPT !.pre_countries = countries,
                                                  !.pre_meta = app_meta]]
    /\ UNCHANGED <<store, clock, image, locals, tx, result>>
    /\ UNCHANGED aside

\* http.get(countries_url).send().await?.json().await?, the source answering
\* with one of `catalogs`
FetchCountriesFrom(p, catalogs) ==
    /\ pc[p] = "fetch_countries"
    /\ \E r \in Responses(catalogs) :
          IF r.net /\ r.body.parses
          THEN /\ rc_countries' = [rc_countries EXCEPT ![p] = r.body.json]
               /\ pc' = [pc EXCEPT ![p] = "fetch_rates"]
               /\ hist' = [hist EXCEPT ![p].bad_status = (r.status # 200)]
               /\ UNCHANGED <<tx, result>>
          ELSE /\ Fail(p, "External")
               /\ hist' = [hist EXCEPT ![p].bad_status = (r.net /\ r.status # 200),
                                       ![p].fetch_failed = TRUE]
               /\ UNCHANGED rc_countries
    /\ UNCHANGED <<store, clock, image, rates_resp, idx, inserted, updated, now_iso>>
    /\ UNCHANGED aside

\* the catalog fetch of a call served alone
FetchCountries(p) == FetchCountriesFrom(p, Catalogs)

\* mutant of FetchRates: a failed fetch is replaced by an empty rate table
\* and the refresh goes on
FetchRatesLenient(p) ==
    /\ pc[p] = "fetch_rates"
    /\ \E r \in Responses(ErRates) :
          /\ rates_resp' = [rates_resp EXCEPT ![p] =
                               IF r.net /\ r.body.parses THEN r.body.json ELSE <<>>]
          /\ hist' = [hist EXCEPT ![p].bad_status = (@ \/ (r.net /\ r.status # 200)),
                                  ![p].fetch_failed = ~(r.net /\ r.body.parses)]
    /\ pc' = [pc EXCEPT ![p] = "begin"]
    /\ UNCHANGED <<store, clock, image, rc_countries, idx, inserted, updated, now_iso,
                   tx, result>>
    /\ UNCHANGED aside

\* http.get(rates_url).send().await?.json().await?
FetchRates(p) ==
    /\ pc[p] = "fetch_rates"
    /\ \E r \in Responses(ErRates) :
          IF r.net /\ r.body.parses
          THEN /\ rates_resp' = [rates_resp EXCEPT ![p] = r.body.json]
               /\ pc' = [pc EXCEPT ![p] = "begin"]
               /\ hist' = [hist EXCEPT ![p].bad_status = (@ \/ r.status # 200)]
               /\ UNCHANGED <<tx, result>>
          ELSE /\ Fail(p, "External")
               /\ hist' = [hist EXCEPT ![p].bad_status = (@ \/ (r.net /\ r.status # 200)),
                                       ![p].fetch_failed = TRUE]
               /\ UNCHANGED rates_resp
    /\ UNCHANGED <<store, clock, image, rc_countries, idx, inserted, updated, now_iso>>
    /\ UNCHANGED aside

\* state.pool.begin().await?, then inserted = 0, updated = 0
Begin(p) ==
    /\ pc[p] = "begin"
    /\ \E ok \in BOOLEAN :
          IF ok
          THEN /\ tx' = [tx EXCEPT ![p] = [NoTx EXCEPT !.open = TRUE]]
               /\ pc' = [pc EXCEPT ![p] =
                            IF rc_countries[p] = <<>> THEN "meta" ELSE "upsert"]
               /\ hist' = [hist EXCEPT ![p].began = TRUE]
               /\ UNCHANGED result
          ELSE /\ Fail(p, "Internal")
               /\ UNCHANGED hist
    /\ inserted' = [inserted EXCEPT ![p] = 0]
    /\ updated' = [updated EXCEPT ![p] = 0]
    /\ idx' = [idx EXCEPT ![p] = 1]
    /\ UNCHANGED <<store, clock, image, rc_countries, rates_resp, now_iso>>
    /\ UNCHANGED aside

\* mutant of Upsert: the statement runs on the pool, outside the transaction
UpsertOnPool(p) ==
    /\ pc[p] = "upsert"
    /\ \E ok \in BOOLEAN, multiplier \in Multipliers :
          LET v == Normalize(rc_countries[p][idx[p]], rates_resp[p], multiplier)
          IN  IF ok
              THEN \E n \in RowsAffected(countries, v) :
                     /\ countries' = Overlay(countries,
                                              KeyOf(v.name) :> UpsertRow(countries, v))
                     /\ inserted' = [inserted EXCEPT ![p] = @ + Classify(n)[1]]
                     /\ updated' = [updated EXCEPT ![p] = @ + Classify(n)[2]]
                     /\ idx' = [idx EXCEPT ![p] = @ + 1]
                     /\ pc' = [pc EXCEPT ![p] =
                                  IF idx[p] = Len(rc_countries[p]) THEN "meta" ELSE "upsert"]
                     /\ UNCHANGED <<result, hist, tx>>
              ELSE /\ Fail(p, "Internal")
                   /\ hist' = [hist EXCEPT ![p].tx_failed = TRUE]
                   /\ UNCHANGED <<inserted, updated, idx, countries>>
    /\ UNCHANGED <<app_meta, clock, image, rc_countries, rates_resp, now_iso>>
    /\ UNCHANGED aside

\* mutant of Upsert: a statement that waits for a row never ends with an
\* error; the store finds no deadlock and has no lock wait timeout
UpsertWaiting(p) ==
    /\ pc[p] = "upsert"
    /\ \E ok \in BOOLEAN, multiplier \in Multipliers :
          LET v == Normalize(rc_countries[p][idx[p]], rates_resp[p], multiplier)
              view == TxView(tx[p])
          IN  /\ KeyOf(v.name) \notin LockedByOthers(p)
              /\ IF ok
                 THEN \E n \in RowsAffected(view, v) :
                        /\ tx' = [tx EXCEPT ![p].rows =
                                     Overlay(@, KeyOf(v.name) :> UpsertRow(view, v))]
                        /\ inserted' = [inserted EXCEPT ![p] = @ + Classify(n)[1]]
                        /\ updated' = [updated EXCEPT ![p] = @ + Classify(n)[2]]
                        /\ idx' = [idx EXCEPT ![p] = @ + 1]
                        /\ pc' = [pc EXCEPT ![p] =
                                     IF idx[p] = Len(rc_countries[p]) THEN "meta"
                                     ELSE "upsert"]
                        /\ UNCHANGED <<result, hist>>
                 ELSE /\ Fail(p, "Internal")
                      /\ hist' = [hist EXCEPT ![p].tx_failed = TRUE]
                      /\ UNCHANGED <<inserted, updated, idx>>
    /\ UNCHANGED <<store, clock, image, rc_countries, rates_resp, now_iso>>
    /\ UNCHANGED aside

\* one turn of `for c in countries`: normalize, estimate, upsert inside the
\* transaction, classify rows_affected. The statement waits while another
\* transaction holds the row; it fails on any store error (a deadlock or a
\* lock wait timeout among them)
Upsert(p) ==
    /\ pc[p] = "upsert"
    /\ \E ok \in BOOLEAN, multiplier \in Multipliers :
          LET v == Normalize(rc_countries[p][idx[p]], rates_resp[p], multiplier)
              view == TxView(tx[p])
          IN  IF ok
              THEN \E n \in RowsAffected(view, v) :
                     /\ KeyOf(v.name) \notin LockedByOthers(p)
                     /\ tx' = [tx EXCEPT ![p].rows =
                                  Overlay(@, KeyOf(v.name) :> UpsertRow(view, v))]
                     /\ inserted' = [inserted EXCEPT ![p] = @ + Classify(n)[1]]
                     /\ updated' = [updated EXCEPT ![p] = @ + Classify(n)[2]]
                     /\ idx' = [idx EXCEPT ![p] = @ + 1]
                     /\ pc' = [pc EXCEPT ![p] =
                                  IF idx[p] = Len(rc_countries[p]) THEN "meta" ELSE "upsert"]
                     /\ UNCHANGED <<result, hist>>
              ELSE /\ Fail(p, "Internal")
                   /\ hist' = [hist EXCEPT ![p].tx_failed = TRUE]
                   /\ UNCHANGED <<inserted, updated, idx>>
    /\ UNCHANGED <<store, clock, image, rc_countries, rates_resp, now_iso>>
    /\ UNCHANGED aside

\* let now_iso = Utc::now().to_rfc3339(): the clock is read when the loop has
\* ended, before the REPLACE statement is sent
ReadNow(p) ==
    /\ pc[p] = "meta"
    /\ now_iso' = [now_iso EXCEPT ![p] = UtcNow]
    /\ pc' = [pc EXCEPT ![p] = "replace"]
    /\ UNCHANGED <<store, clock, image, rc_countries, rates_resp, idx, inserted,
                   updated, tx, result, hist>>
    /\ UNCHANGED aside

\* mutant of MetaWrite: the REPLACE runs on the pool, outside the transaction
MetaWriteOnPool(p) ==
    /\ pc[p] = "replace"
    /\ \E ok \in BOOLEAN :
          IF ok
          THEN /\ app_meta' = Some(now_iso[p])
               /\ pc' = [pc EXCEPT ![p] = "commit"]
               /\ UNCHANGED <<result, hist, tx>>
          ELSE /\ Fail(p, "Internal")
               /\ hist' = [hist EXCEPT ![p].tx_failed = TRUE]
               /\ UNCHANGED app_meta
    /\ UNCHANGED <<countries, clock, image, rc_countries, rates_resp, idx, inserted,
                   updated, now_iso>>
    /\ UNCHANGED aside

\* mutant of MetaWrite: the provenance record is written only by a refresh
\* that inserted or updated a row
MetaWriteIfChanged(p) ==
    /\ pc[p] = "replace"
    /\ \E ok \in BOOLEAN :
          IF ok
          THEN /\ tx' = [tx EXCEPT ![p].meta =
                            IF inserted[p] + updated[p] > 0 THEN Some(now_iso[p]) ELSE @]
               /\ pc' = [pc EXCEPT ![p] = "commit"]
               /\ UNCHANGED <<result, hist>>
          ELSE /\ Fail(p, "Internal")
               /\ hist' = [hist EXCEPT ![p].tx_failed = TRUE]
    /\ UNCHANGED <<store, clock, image, rc_countries, rates_resp, idx, inserted,
                   updated, now_iso>>
    /\ UNCHANGED aside

\* REPLACE INTO app_meta (k, v) VALUES ('last_refreshed_at', now_iso) inside
\* the transaction; the statement waits while another transaction holds the
\* record
MetaWrite(p) ==
    /\ pc[p] = "replace"
    /\ \E ok \in BOOLEAN :
          IF ok
          THEN /\ ~MetaLockedByOthers(p)
               /\ tx' = [tx EXCEPT ![p].meta = Some(now_iso[p])]
               /\ pc' = [pc EXCEPT ![p] = "commit"]
               /\ UNCHANGED <<result, hist>>
          ELSE /\ Fail(p, "Internal")
               /\ hist' = [hist EXCEPT ![p].tx_failed = TRUE]
    /\ UNCHANGED <<store, clock, image, rc_countries, rates_resp, idx, inserted,
                   updated, now_iso>>
    /\ UNCHANGED aside

\* mutant of Commit: the result of tx.commit() is dropped and the call goes on
CommitIgnoringError(p) ==
    /\ pc[p] = "commit"
    /\ \E ok \in BOOLEAN :
          /\ countries' = IF ok THEN Committed(countries, tx[p]) ELSE countries
          /\ app_meta' = IF ok /\ tx[p].meta # None THEN tx[p].meta ELSE app_meta
          /\ hist' = [hist EXCEPT ![p].committed = ok]
    /\ tx' = [tx EXCEPT ![p] = NoTx]
    /\ pc' = [pc EXCEPT ![p] = "render"]
    /\ UNCHANGED <<result, clock, image, locals>>
    /\ UNCHANGED aside

\* tx.commit().await?: the writes of the transaction become the stored rows,
\* or the commit fails and none does
Commit(p) ==
    /\ pc[p] = "commit"
    /\ \E ok \in BOOLEAN :
          IF ok
          THEN /\ countries' = Committed(countries, tx[p])
               /\ app_meta' = IF tx[p].meta = None THEN app_meta ELSE tx[p].meta
               /\ tx' = [tx EXCEPT ![p] = NoTx]
               /\ pc' = [pc EXCEPT ![p] = "render"]
               /\ hist' = [hist EXCEPT ![p].committed = TRUE,
                                       ![p].after = {q \in Procs \ {p} :
                                                        hist[q].committed}]
               /\ UNCHANGED result
          ELSE /\ Fail(p, "Internal")
               /\ hist' = [hist EXCEPT ![p].tx_failed = TRUE]
               /\ UNCHANGED store
    /\ UNCHANGED <<clock, image, locals>>
    /\ UNCHANGED aside

\* rows the summary lists
TopN == 5

\* SELECT name, estimated_gdp FROM countries WHERE estimated_gdp IS NOT NULL
\* ORDER BY estimated_gdp DESC LIMIT 5
Top5(rows) ==
    LET rated == {k \in DOMAIN rows : rows[k].estimated_gdp # None}
        above(k) == {j \in rated : rows[j].estimated_gdp[1] > rows[k].estimated_gdp[1]}
    IN  {<<rows[k].name, rows[k].estimated_gdp[1]>> :
            k \in {j \in rated : Cardinality(above(j)) < TopN}}

\* build_summary_image, first statement: SELECT COUNT(*) FROM countries on the
\* pool; its error ends the render
RenderCount(p) ==
    /\ pc[p] = "render"
    /\ \E ok \in BOOLEAN :
          IF ok
          THEN /\ hist' = [hist EXCEPT ![p].total = Cardinality(DOMAIN countries)]
               /\ pc' = [pc EXCEPT ![p] = "render_top5"]
          ELSE /\ hist' = [hist EXCEPT ![p].render = "failed"]
               /\ pc' = [pc EXCEPT ![p] = "respond"]
    /\ UNCHANGED <<store, clock, image, locals, tx, result>>
    /\ UNCHANGED aside

\* mutant of Render: the render is spawned as a task of its own and the call
\* goes on without its end
RenderSpawned(p) ==
    /\ pc[p] = "render_top5"
    /\ hist' = [hist EXCEPT ![p].render = "ok"]
    /\ pc' = [pc EXCEPT ![p] = "respond"]
    /\ UNCHANGED <<store, clock, image, locals, tx, result>>
    /\ UNCHANGED aside

\* mutant of Render: the renderer's error is returned with `?`
RenderPropagating(p) ==
    /\ pc[p] = "render_top5"
    /\ \E ok \in BOOLEAN :
          IF ok
          THEN /\ image' = TRUE
               /\ hist' = [hist EXCEPT ![p].render = "ok"]
               /\ pc' = [pc EXCEPT ![p] = "respond"]
               /\ UNCHANGED <<tx, result>>
          ELSE /\ Fail(p, "Internal")
               /\ hist' = [hist EXCEPT ![p].render = "failed"]
               /\ UNCHANGED image
    /\ UNCHANGED <<store, clock, locals>>
    /\ UNCHANGED aside

\* `if let Err(e) = build_summary_image(..).await { error!(..) }`: the render
\* runs to its end inside the call. Second statement, the top 5 on the pool,
\* then the blocking task draws the lines and img.save(&path) writes the
\* file, which needs the directory of the path. A failure (a query error, a
\* save error, a panic of the blocking task turned into Err("spawn failed"))
\* is logged and dropped
Render(p) ==
    /\ pc[p] = "render_top5"
    /\ \E ok \in BOOLEAN :
          /\ image' = (image \/ (ok /\ dir))
          /\ hist' = [hist EXCEPT
                         ![p].render = IF ok /\ dir THEN "ok" ELSE "failed",
                         ![p].top5 = IF ok THEN Top5(countries) ELSE @,
                         ![p].at_top5 = IF ok THEN Cardinality(DOMAIN countries) ELSE @]
    /\ pc' = [pc EXCEPT ![p] = "respond"]
    /\ UNCHANGED <<store, clock, locals, tx, result>>
    /\ UNCHANGED aside

\* Ok(RefreshResult { inserted, updated, last_refreshed_at: now_iso })
Respond(p) ==
    /\ pc[p] = "respond"
    /\ pc' = [pc EXCEPT ![p] = "done"]
    /\ result' = [result EXCEPT ![p] =
                     [kind |-> "Ok", inserted |-> inserted[p], updated |-> updated[p],
                      last_refreshed_at |-> now_iso[p]]]
    /\ UNCHANGED <<store, clock, image, locals, tx, hist>>
    /\ UNCHANGED aside

\* the handler `refresh` answers and the call's frame is gone
Return(p) ==
    /\ pc[p] = "done"
    /\ pc' = [pc EXCEPT ![p] = "idle"]
    /\ rc_countries' = [rc_countries EXCEPT ![p] = <<>>]
    /\ rates_resp' = [rates_resp EXCEPT ![p] = <<>>]
    /\ idx' = [idx EXCEPT ![p] = 1]
    /\ inserted' = [inserted EXCEPT ![p] = 0]
    /\ updated' = [updated EXCEPT ![p] = 0]
    /\ now_iso' = [now_iso EXCEPT ![p] = 0]
    /\ result' = [result EXCEPT ![p] = NoResult]
    /\ hist' = [hist EXCEPT ![p] = NoHist]
    /\ UNCHANGED <<store, clock, image, tx>>
    /\ UNCHANGED aside

\* ------------------------------------------------------------ other handlers
\* names a client can ask for
LookupNames == {<<"N">>, <<"n">>, <<"g">>}

\* get_country: SELECT .. WHERE LOWER(name)=LOWER(?) LIMIT 1; None is the
\* NotFound answer
GetCountry(name) ==
    LET found == {k \in DOMAIN countries : Lower(countries[k].name) = Lower(name)}
    IN  IF found = {} THEN None ELSE Some(countries[CHOOSE k \in found : TRUE])

\* list_countries with ?region=..: the rows of WHERE region = ? (a NULL
\* region matches nothing; the collation ignores case)
ListCountries(region) ==
    {countries[k] : k \in {j \in DOMAIN countries :
        /\ countries[j].region # None
        /\ Lower(countries[j].region[1]) = Lower(region)}}

\* ApiError::into_response, and StatusCode::OK of a handler that returns Ok
StatusCodeExternalAsInternal(kind) ==
    CASE kind = "Ok" -> 200
      [] kind = "Validation" -> 400
      [] kind = "NotFound" -> 404
      [] kind = "External" -> 500
      [] kind = "Internal" -> 500

StatusCode(kind) ==
    CASE kind = "Ok" -> 200
      [] kind = "Validation" -> 400
      [] kind = "NotFound" -> 404
      [] kind = "External" -> 503
      [] kind = "Internal" -> 500

\* ListParams of a request that names no parameter
DefaultParams ==
    [region |-> None, currency |-> None, sort |-> None, page |-> None, limit |-> None]

\* the query strings a client sends: one parameter given at a time
ListQueries ==
    {DefaultParams}
    \cup {[DefaultParams EXCEPT !.region = Some(r)] : r \in {<<"A">>}}
    \cup {[DefaultParams EXCEPT !.currency = Some(c)] :
             c \in {NGN, <<"N", "G">>, <<>>, <<"€">>, <<"N", "€">>}}
    \cup {[DefaultParams EXCEPT !.sort = Some(o)] : o \in {"gdp_desc", "name_asc", "newest"}}
    \cup {[DefaultParams EXCEPT !.page = Some(n)] : n \in {0, 1}}
    \cup {[DefaultParams EXCEPT !.limit = Some(n)] : n \in {0, 1, MaxLimit, MaxLimit + 1}}

AllowedSorts == {"gdp_desc", "gdp_asc", "name_asc", "population_desc"}

\* the bytes of one character in UTF-8, the encoding of a Rust String
Utf8Len(ch) == IF ch = "€" THEN 3 ELSE 1

\* str::len(): the length in bytes
RECURSIVE ByteLen(_)
ByteLen(s) == IF s = <<>> THEN 0 ELSE Utf8Len(Head(s)) + ByteLen(Tail(s))

\* validate_list_params: TRUE for Ok(())
ValidateListParams(q) ==
    /\ q.sort # None => q.sort[1] \in AllowedSorts
    /\ q.page # None => q.page[1] >= 1
    /\ q.limit # None => q.limit[1] \in 1..MaxLimit
    /\ q.currency # None => ByteLen(q.currency[1]) = 3

\* GET /countries: validation, then one SELECT on the pool. db: whether a
\* statement was sent ("none": not), and how it ended
ListRequest(q) ==
    /\ Idle
    /\ IF ~ValidateListParams(q)
       THEN response' = [handler |-> "list", arg |-> q, matched |-> 0,
                         db |-> "none", kind |-> "Validation"]
       ELSE \E ok \in BOOLEAN :
               response' = [handler |-> "list", arg |-> q, matched |-> 0,
                            db |-> IF ok THEN "ok" ELSE "failed",
                            kind |-> IF ok THEN "Ok" ELSE "Internal"]
    /\ UNCHANGED <<store, clock, image, pc, locals, tx, result, hist, estimate, dir>>

\* GET /countries/:name
GetRequest(name) ==
    /\ Idle
    /\ \E ok \in BOOLEAN :
          response' = [handler |-> "get", arg |-> name,
                       matched |-> Len(GetCountry(name)),
                       db |-> IF ok THEN "ok" ELSE "failed",
                       kind |-> IF ~ok THEN "Internal"
                                ELSE IF GetCountry(name) = None THEN "NotFound"
                                ELSE "Ok"]
    /\ UNCHANGED <<store, clock, image, pc, locals, tx, result, hist, estimate, dir>>

\* delete_country: DELETE FROM countries WHERE LOWER(name)=LOWER(?) on the
\* pool; rows_affected() == 0 is NotFound
DeleteCountry(name) ==
    /\ Idle
    /\ \E ok \in BOOLEAN :
          LET hit == {j \in DOMAIN countries : Lower(countries[j].name) = Lower(name)}
          IN  IF ok
              THEN /\ countries' = [k \in DOMAIN countries \ hit |-> countries[k]]
                   /\ response' = [handler |-> "delete", arg |-> name,
                                    matched |-> Cardinality(hit), db |-> "ok",
                                    kind |-> IF Cardinality(hit) = 0 THEN "NotFound"
                                             ELSE "Ok"]
              ELSE /\ countries' = countries
                   /\ response' = [handler |-> "delete", arg |-> name,
                                    matched |-> 0, db |-> "failed",
                                    kind |-> "Internal"]
    /\ UNCHANGED <<app_meta, clock, image, pc, locals, tx, result, hist, estimate, dir>>

\* get_image: NotFound unless the file exists, else its bytes; readable: the
\* read of the file succeeds
GetImage(readable) ==
    IF ~image THEN [kind |-> "NotFound", body |-> <<>>]
    ELSE IF readable THEN [kind |-> "Ok", body |-> <<"png">>]
    ELSE [kind |-> "Internal", body |-> <<>>]

\* GET /countries/image
ImageRequest ==
    /\ Idle
    /\ \E readable \in BOOLEAN :
          response' = [handler |-> "image", arg |-> image, matched |-> 0,
                       db |-> "none", kind |-> GetImage(readable).kind,
                       body |-> GetImage(readable).body]
    /\ UNCHANGED <<store, clock, image, pc, locals, tx, result, hist, estimate, dir>>

\* the handler of the request in flight answers
Answer ==
    /\ response # NoResponse
    /\ response' = NoResponse
    /\ UNCHANGED <<store, clock, image, pc, locals, tx, result, hist, estimate, dir>>

\* time passes. The clock is observed by NOW() in the upsert and by
\* Utc::now() only: a tick at any other instant is the same as one before
\* the next of these reads
Tick ==
    /\ clock < MaxClock
    /\ \E p \in Procs : pc[p] \in {"upsert", "meta"}
    /\ clock' = clock + 1
    /\ UNCHANGED <<store, image, pc, locals, tx, result, hist>>
    /\ UNCHANGED aside

Next ==
    \/ \E p \in Procs :
          \/ RefreshStart(p)
          \/ FetchCountries(p)
          \/ FetchRates(p)
          \/ Begin(p)
          \/ Upsert(p)
          \/ ReadNow(p)
          \/ MetaWrite(p)
          \/ Commit(p)
          \/ RenderCount(p)
          \/ Render(p)
          \/ Respond(p)
          \/ Return(p)
    \/ \E q \in ListQueries : ListRequest(q)
    \/ \E name \in LookupNames : GetRequest(name)
    \/ \E name \in LookupNames : DeleteCountry(name)
    \/ ImageRequest
    \/ Answer
    \/ Tick

\* requests are served one at a time
Spec == Init /\ [][Next]_vars

\* Utc::now() read once the clock has moved past the instant the stored
\* provenance record bears: the instant an earlier refresh read before it
\* returned
TimedReadNow(p) ==
    /\ app_meta # None => app_meta[1] < UtcNow
    /\ ReadNow(p)

TimedNext ==
    \/ \E p \in Procs :
          \/ RefreshStart(p)
          \/ FetchCountries(p)
          \/ FetchRates(p)
          \/ Begin(p)
          \/ Upsert(p)
          \/ TimedReadNow(p)
          \/ MetaWrite(p)
          \/ Commit(p)
          \/ RenderCount(p)
          \/ Render(p)
          \/ Respond(p)
          \/ Return(p)
    \/ \E q \in ListQueries : ListRequest(q)
    \/ \E name \in LookupNames : GetRequest(name)
    \/ \E name \in LookupNames : DeleteCountry(name)
    \/ ImageRequest
    \/ Answer
    \/ Tick

\* requests served one at a time, each refresh taking its time: the clock
\* moves on between the Utc::now() of one refresh and that of the next
TimedSpec == Init /\ [][TimedNext]_vars

\* ------------------------------------------------- concurrent requests
\* POST /countries/refresh while other requests are in flight: the router
\* serves each request on a task of its own and no lock serializes them
RefreshStartConcurrent(p) ==
    /\ pc[p] = "idle"
    /\ pc' = [pc EXCEPT ![p] = "fetch_countries"]
    /\ hist' = [hist EXCEPT ![p] = [NoHist EXCEPT !.pre_countries = countries,
                                                  !.pre_meta = app_meta]]
    /\ UNCHANGED <<store, clock, image, locals, tx, result>>
    /\ UNCHANGED aside

\* the catalogs the entity source answers while refreshes overlap: they
\* share keys, list them in opposite orders, and differ in the values
ConcCatalogs ==
    {<<RcNigeria, RcGhana>>, <<RcGhana, RcNigeriaBare>>, <<RcNigeriaBare>>}

\* the catalog fetch, answered with one of ConcCatalogs
ConcFetchCountries(p) ==
    /\ FetchCountries(p)
    /\ ~hist'[p].fetch_failed
    /\ ~hist'[p].bad_status
    /\ rc_countries'[p] \in ConcCatalogs

\* the rate table the rate source answers while refreshes overlap
ConcRates == {(NGN :> 2)}

\* the rate fetch, answered with one of ConcRates
ConcFetchRates(p) ==
    /\ FetchRates(p)
    /\ ~hist'[p].fetch_failed
    /\ ~hist'[p].bad_status
    /\ rates_resp'[p] \in ConcRates

\* status, first statement: SELECT COUNT(*) FROM countries, on the pool
StatusCount ==
    /\ response = NoResponse
    /\ \E ok \in BOOLEAN :
          response' = [handler |-> "status", arg |-> <<>>,
                       matched |-> IF ok THEN Cardinality(DOMAIN countries) ELSE 0,
                       db |-> IF ok THEN "ok" ELSE "failed",
                       kind |-> IF ok THEN "pending" ELSE "Internal",
                       ts |-> None]
    /\ UNCHANGED <<store, clock, image, pc, locals, tx, result, hist, estimate, dir>>

\* status, second statement: SELECT v FROM app_meta WHERE k = .., on the
\* pool; then the answer is built
StatusMeta ==
    /\ response.handler = "status"
    /\ response.kind = "pending"
    /\ \E ok \in BOOLEAN :
          response' = [response EXCEPT
                          !.db = IF ok THEN "ok" ELSE "failed",
                          !.kind = IF ok THEN "Ok" ELSE "Internal",
                          !.ts = IF ok THEN app_meta ELSE None]
    /\ UNCHANGED <<store, clock, image, pc, locals, tx, result, hist, estimate, dir>>

ConcNext ==
    \/ \E p \in Procs :
          \/ RefreshStartConcurrent(p)
          \/ ConcFetchCountries(p)
          \/ ConcFetchRates(p)
          \/ Begin(p)
          \/ Upsert(p)
          \/ ReadNow(p)
          \/ MetaWrite(p)
          \/ Commit(p)
          \/ RenderCount(p)
          \/ Render(p)
          \/ Respond(p)
    \/ StatusCount
    \/ StatusMeta
    \/ Answer
    \/ Tick

\* refreshes and status requests in flight together
ConcSpec == Init /\ [][ConcNext]_vars

\* ------------------------------------------------- refreshes racing for rows
\* the catalogs the entity source answers to two refreshes that race: they
\* list the same keys in opposite orders, and one lists a key twice
RaceCatalogs ==
    {<<RcNigeria, RcGhana>>, <<RcGhana, RcNigeriaBare>>, <<RcNigeriaBare, RcNigeria>>}

\* the catalog fetch, answered with one of RaceCatalogs
RaceFetchCountries(p) ==
    /\ FetchCountriesFrom(p, RaceCatalogs)
    /\ ~hist'[p].fetch_failed
    /\ ~hist'[p].bad_status

\* one step of the refresh that task p runs
RaceStep(p) ==
    \/ RefreshStartConcurrent(p)
    \/ RaceFetchCountries(p)
    \/ ConcFetchRates(p)
    \/ Begin(p)
    \/ Upsert(p)
    \/ ReadNow(p)
    \/ MetaWrite(p)
    \/ Commit(p)
    \/ RenderCount(p)
    \/ Render(p)
    \/ Respond(p)

RaceNext == \E p \in Procs : RaceStep(p)

\* two refreshes in flight together. The runtime polls every task that can
\* go on, and the store answers every statement it was sent: with the result
\* once the locks are free, or with the error (a deadlock found, a lock wait
\* timed out)
RaceSpec ==
    /\ Init
    /\ [][RaceNext]_vars
    /\ \A p \in Procs : WF_vars(RaceStep(p))

\* ------------------------------------------------- refreshes of disjoint rows
\* the catalogs the entity source answers to two refreshes in flight when
\* its content changes between the two fetches: they share no key, so that
\* neither refresh waits for a row of the other
DisjointCatalogs == {<<RcGhana>>, <<RcNigeria>>}

\* the catalog fetch, answered with one of DisjointCatalogs
DisjointFetchCountries(p) ==
    /\ FetchCountriesFrom(p, DisjointCatalogs)
    /\ ~hist'[p].fetch_failed
    /\ ~hist'[p].bad_status

DisjointNext ==
    \/ \E p \in Procs :
          \/ RefreshStartConcurrent(p)
          \/ DisjointFetchCountries(p)
          \/ ConcFetchRates(p)
          \/ Begin(p)
          \/ Upsert(p)
          \/ ReadNow(p)
          \/ MetaWrite(p)
          \/ Commit(p)
          \/ RenderCount(p)
          \/ Render(p)
          \/ Respond(p)
    \/ Tick

\* two refreshes in flight together while time passes, each with a catalog
\* of its own
DisjointSpec == Init /\ [][DisjointNext]_vars

\* ------------------------------------------------- a source and a disk at fault
\* a record whose population is below zero: RcCountry.population is an
\* Option<i64> and the JSON of the source may carry any integer
RcSigned == [RcNigeria EXCEPT !.population = Some(0 - 1)]

\* the catalogs of a source that reports such a record
SignedCatalogs == {<<RcSigned>>, <<RcGhana, RcSigned>>}

\* the catalog fetch, answered with one of SignedCatalogs
SignedFetchCountries(p) ==
    /\ FetchCountriesFrom(p, SignedCatalogs)
    /\ ~hist'[p].fetch_failed
    /\ ~hist'[p].bad_status

\* the directory of summary_image_path is removed while the service runs,
\* and the file with it; build_state made it once, at startup
RemoveDir ==
    /\ dir
    /\ dir' = FALSE
    /\ image' = FALSE
    /\ UNCHANGED <<store, clock, pc, locals, tx, result, hist, response, estimate>>

FaultNext ==
    \/ \E p \in Procs :
          \/ RefreshStart(p)
          \/ SignedFetchCountries(p)
          \/ FetchRates(p)
          \/ Begin(p)
          \/ Upsert(p)
          \/ ReadNow(p)
          \/ MetaWrite(p)
          \/ Commit(p)
          \/ RenderCount(p)
          \/ Render(p)
          \/ Respond(p)
          \/ Return(p)
    \/ RemoveDir
    \/ ImageRequest
    \/ Answer

\* requests served one at a time, the source reporting a population below
\* zero and the directory of the image liable to go
FaultSpec == Init /\ [][FaultNext]_vars

\* ------------------------------------------------------------ properties
\* the natural keys of the catalog a call fetched
CatalogKeys(p) ==
    {KeyOf(Trim(rc_countries[p][i].name)) : i \in 1..Len(rc_countries[p])}

\* no natural key is listed twice in the catalog
DistinctKeys(p) == Cardinality(CatalogKeys(p)) = Len(rc_countries[p])

\* the last record of the catalog that bears key k
LastRecord(p, k) ==
    LET at == {i \in 1..Len(rc_countries[p]) : KeyOf(Trim(rc_countries[p][i].name)) = k}
    IN  rc_countries[p][CHOOSE i \in at : \A j \in at : j <= i]

Succeeded(p) == pc[p] = "done" /\ result[p].kind = "Ok"

\* the bounds of the data model on one stored row
RowWithinBounds(row) ==
    /\ row.population >= 0
    /\ row.exchange_rate = None \/ row.exchange_rate[1] > 0
    /\ row.estimated_gdp = None \/ row.estimated_gdp[1] >= 0

StoreAsBefore(p) ==
    /\ countries = hist[p].pre_countries
    /\ app_meta = hist[p].pre_meta

\* C1: a refresh whose catalog fetch or rate fetch fails (no response, or a
\* body that does not parse) opens no transaction, leaves every row and the
\* provenance record as they were before the call, and reports the
\* external-unavailable condition.
C1_FetchFailureLeavesStore ==
    \A p \in Procs :
        hist[p].fetch_failed =>
            /\ pc[p] = "done"
            /\ result[p].kind = "External"
            /\ ~hist[p].began
            /\ ~tx[p].open
            /\ StoreAsBefore(p)

\* C1 witness: a fetch has failed on a store that held rows and a provenance
\* record
C1_Witness ==
    \E p \in Procs :
        /\ hist[p].fetch_failed
        /\ rc_countries[p] # <<>>
        /\ countries # <<>>
        /\ app_meta # None

\* C2: when an upsert, the provenance write or the commit fails, the rows
\* and the provenance record are as before the call, whatever number of
\* upserts had run inside the transaction, and the call reports the internal
\* condition.
C2_TxFailureRollsBack ==
    \A p \in Procs :
        hist[p].tx_failed =>
            /\ pc[p] = "done"
            /\ result[p].kind = "Internal"
            /\ ~tx[p].open
            /\ StoreAsBefore(p)

\* C2 witness: the transaction failed after two upserts had run in it, one of
\* them for a key the store did not hold
C2_Witness ==
    \E p \in Procs :
        /\ hist[p].tx_failed
        /\ idx[p] = 3
        /\ \E k \in CatalogKeys(p) : k \notin DOMAIN countries

\* a step in which the transaction of p commits
CommitStep(p) == pc[p] = "commit" /\ pc'[p] = "render"

\* C3: the provenance record is written only by the commit of a refresh, every
\* commit sets it to the timestamp of the refresh that commits, and a refresh
\* that ends in an error leaves it alone.
C3_ProvenanceOnlyByCommit ==
    [][/\ app_meta' # app_meta => \E p \in Procs : CommitStep(p)
       /\ \A p \in Procs : CommitStep(p) => app_meta' = Some(now_iso[p])
       /\ \A p \in Procs :
             (pc[p] # "done" /\ pc'[p] = "done" /\ result'[p].kind # "Ok")
                 => app_meta' = app_meta]_vars

\* C3 witness: a commit has replaced an earlier provenance timestamp by a
\* different one
C3_Witness ==
    \E p \in Procs :
        /\ pc[p] = "render"
        /\ app_meta = Some(now_iso[p])
        /\ hist[p].pre_meta # None
        /\ hist[p].pre_meta # app_meta

\* C4: after a refresh that returns success, every natural key of the catalog
\* has a row, found by a lookup of the trimmed name, listed under its region,
\* and carrying capital, region, population, currency code, exchange rate,
\* estimated GDP and flag URL derived from the catalog record (the last one
\* that bears the key) and from the rate table of that refresh.
C4_CatalogPresentAfterSuccess ==
    \A p \in Procs :
        Succeeded(p) =>
            \A k \in CatalogKeys(p) :
                LET c == LastRecord(p, k)
                    population == IF c.population = None THEN 0 ELSE c.population[1]
                IN  /\ k \in DOMAIN countries
                    /\ KeyOf(countries[k].name) = KeyOf(Trim(c.name))
                    /\ countries[k].capital = TrimOpt(c.capital)
                    /\ countries[k].region = TrimOpt(c.region)
                    /\ countries[k].population = population
                    /\ countries[k].currency_code = FirstCode(c)
                    /\ countries[k].flag_url = TrimOpt(c.flag)
                    /\ \E m \in Multipliers :
                          <<countries[k].exchange_rate, countries[k].estimated_gdp>>
                              = Estimate(population, FirstCode(c), rates_resp[p], m)
                    /\ GetCountry(Trim(c.name)) = Some(countries[k])
                    /\ c.region # None =>
                          countries[k] \in ListCountries(Trim(c.region[1]))

\* C4 witness: a refresh has succeeded with a catalog of two keys, one of
\* them rated, over a row that held other values
C4_Witness ==
    \E p \in Procs :
        /\ Succeeded(p)
        /\ Cardinality(CatalogKeys(p)) = 2
        /\ \E k \in CatalogKeys(p) :
              /\ countries[k].exchange_rate # None
              /\ k \in DOMAIN hist[p].pre_countries
              /\ hist[p].pre_countries[k].capital # countries[k].capital

\* C5 (as claimed): after a successful refresh the rows it upserted, the
\* provenance record and the returned last_refreshed_at all bear one
\* timestamp, whatever time passes between the statements.
C5_SingleTimestamp ==
    \A p \in Procs :
        Succeeded(p) =>
            /\ app_meta = Some(result[p].last_refreshed_at)
            /\ \A k \in CatalogKeys(p) :
                  countries[k].last_refreshed_at = SecondOf(result[p].last_refreshed_at)

\* C6 (as claimed): a refresh in which a source answered with a status that
\* is not a success reports the external-unavailable condition and leaves the
\* store as it was, whatever the body (stated for the calls in which the
\* store itself did not fail).
C6_ErrorStatusIsUnavailable ==
    \A p \in Procs :
        (pc[p] = "done" /\ hist[p].bad_status /\ result[p].kind # "Internal") =>
            /\ result[p].kind = "External"
            /\ StoreAsBefore(p)

\* C7: a successful refresh keeps every row the store held: none is deleted,
\* and a row whose key is not in the catalog keeps every attribute,
\* last_refreshed_at included.
C7_AbsentRowsUntouched ==
    \A p \in Procs :
        Succeeded(p) =>
            \A k \in DOMAIN hist[p].pre_countries :
                /\ k \in DOMAIN countries
                /\ k \notin CatalogKeys(p) => countries[k] = hist[p].pre_countries[k]

\* C7 witness: a refresh has succeeded and written a row at a later second
\* than that of a stored row its catalog does not list
C7_Witness ==
    \E p \in Procs :
        /\ Succeeded(p)
        /\ \E k \in DOMAIN hist[p].pre_countries, j \in CatalogKeys(p) :
              /\ k \notin CatalogKeys(p)
              /\ countries[j].last_refreshed_at > countries[k].last_refreshed_at

\* C8 (as claimed): for every successful refresh, inserted + updated is the
\* number of distinct natural keys of the catalog.
C8_CountsSumToDistinctKeys ==
    \A p \in Procs :
        Succeeded(p) =>
            result[p].inserted + result[p].updated = Cardinality(CatalogKeys(p))

\* C9 (as claimed): a successful refresh of a store that holds every key of
\* the catalog returns inserted = 0 and updated = the number of keys, and
\* leaves the key set as it was (stated for catalogs that list no key twice).
C9_AllUpdatesOnStableKeys ==
    \A p \in Procs :
        (/\ Succeeded(p)
         /\ DistinctKeys(p)
         /\ CatalogKeys(p) \subseteq DOMAIN hist[p].pre_countries) =>
            /\ result[p].inserted = 0
            /\ result[p].updated = Len(rc_countries[p])
            /\ DOMAIN countries = DOMAIN hist[p].pre_countries

\* C10: a successful refresh of an empty store with a catalog of N distinct
\* natural keys returns inserted = N and updated = 0, and the store then
\* holds N rows.
C10_AllInsertsOnEmptyStore ==
    \A p \in Procs :
        (/\ Succeeded(p)
         /\ DistinctKeys(p)
         /\ hist[p].pre_countries = <<>>) =>
            /\ result[p].inserted = Len(rc_countries[p])
            /\ result[p].updated = 0
            /\ Cardinality(DOMAIN countries) = Len(rc_countries[p])

\* C10 witness: such a refresh has succeeded with two keys
C10_Witness ==
    \E p \in Procs :
        /\ Succeeded(p)
        /\ DistinctKeys(p)
        /\ hist[p].pre_countries = <<>>
        /\ Len(rc_countries[p]) = 2

\* C13: a renderer that fails after the commit does not change the outcome of
\* the refresh: the call returns the success result built from its counters
\* and its timestamp, and the rows and the provenance record it committed
\* stay in the store.
C13_RenderFailureKeepsOutcome ==
    \A p \in Procs :
        hist[p].render = "failed" =>
            /\ pc[p] \in {"respond", "done"}
            /\ hist[p].committed
            /\ app_meta = Some(now_iso[p])
            /\ \A k \in DOMAIN hist[p].pre_countries \cup CatalogKeys(p) :
                  k \in DOMAIN countries
            /\ \A k \in CatalogKeys(p) :
                  countries[k].capital = TrimOpt(LastRecord(p, k).capital)
            /\ pc[p] = "done" =>
                  result[p] = [kind |-> "Ok", inserted |-> inserted[p],
                               updated |-> updated[p],
                               last_refreshed_at |-> now_iso[p]]

\* C13 witness: a refresh that wrote a row has returned after its render
\* failed
C13_Witness ==
    \E p \in Procs :
        /\ pc[p] = "done"
        /\ hist[p].render = "failed"
        /\ rc_countries[p] # <<>>
        /\ result[p].inserted + result[p].updated > 0

\* C14 (as claimed): the success result does not wait for the render: in
\* every state in which the transaction has committed and the render has not
\* ended, the call can return its result.
C14_ResponseDoesNotWaitForRender ==
    \A p \in Procs : pc[p] \in {"render", "render_top5"} => ENABLED Respond(p)

\* C15: the renderer runs only in a refresh whose commit has returned Ok and
\* whose transaction is closed; a refresh that fails in a fetch, in a write
\* or in the commit never runs it.
C15_RenderOnlyAfterCommit ==
    \A p \in Procs :
        /\ (pc[p] \in {"render", "render_top5"} \/ hist[p].render # "none") =>
              /\ hist[p].committed
              /\ ~tx[p].open
              /\ ~hist[p].fetch_failed
              /\ ~hist[p].tx_failed
        /\ (pc[p] = "done" /\ result[p].kind # "Ok") => hist[p].render = "none"
        /\ (hist[p].fetch_failed \/ hist[p].tx_failed) => hist[p].render = "none"

\* C15 witness: the renderer is about to run for a refresh that upserted two
\* records in the transaction it has committed
C15_Witness ==
    \E p \in Procs :
        /\ pc[p] = "render"
        /\ hist[p].began
        /\ idx[p] = 3

\* the HTTP status the handler `refresh` answers for a call that has returned
RefreshStatus(p) == StatusCode(result[p].kind)

\* C19: a refresh whose fetch failed answers 503 and one whose transaction
\* failed answers 500; a list request with an invalid parameter (a currency
\* that is not 3 bytes long among them) answers 400;
\* a lookup or a delete that matches no row answers 404; a read or delete
\* whose statement failed answers 500; and a refresh answers 200 only if its
\* transaction committed.
C19_StatusOfEachFailure ==
    /\ \A p \in Procs :
          pc[p] = "done" =>
              /\ hist[p].fetch_failed => RefreshStatus(p) = 503
              /\ hist[p].tx_failed => RefreshStatus(p) = 500
              /\ RefreshStatus(p) = 200 => hist[p].committed
    /\ response.handler = "list" =>
          LET q == response.arg
              invalid == \/ q.sort # None /\ q.sort[1] \notin AllowedSorts
                         \/ q.page # None /\ q.page[1] < 1
                         \/ q.limit # None /\ (q.limit[1] < 1 \/ q.limit[1] > 200)
                         \/ q.currency # None /\ ByteLen(q.currency[1]) # 3
          IN  invalid => StatusCode(response.kind) = 400
    /\ (response.handler \in {"get", "delete"}
           /\ response.db = "ok" /\ response.matched = 0) =>
          StatusCode(response.kind) = 404
    /\ (response.handler \in {"list", "get", "delete"} /\ response.db = "failed") =>
          StatusCode(response.kind) = 500

\* C19 witness: a delete that matched none of the stored rows has answered
C19_Witness ==
    /\ response.handler = "delete"
    /\ response.matched = 0
    /\ response.db = "ok"
    /\ countries # <<>>

\* C20: the image file comes into being only by a render that succeeds; an
\* image request made while the file is absent answers 404; and when a
\* refresh has returned success and its render worked, the file is there, so
\* that an image request then answers 200 with a body that is not empty
\* (stated for a read of the file that does not fail).
C20_ImageAfterRender ==
    /\ [](/\ (response.handler = "image" /\ ~response.arg) =>
                StatusCode(response.kind) = 404
          /\ ~image => GetImage(TRUE).kind = "NotFound"
          /\ \A p \in Procs :
                (Succeeded(p) /\ hist[p].render = "ok") =>
                    /\ image
                    /\ StatusCode(GetImage(TRUE).kind) = 200
                    /\ GetImage(TRUE).body # <<>>)
    /\ [][image' # image =>
             \E p \in Procs : pc[p] = "render_top5" /\ hist'[p].render = "ok"]_vars

\* C20 witness: an image request has answered 200 with the file a render
\* wrote
C20_Witness ==
    /\ response.handler = "image"
    /\ response.kind = "Ok"
    /\ response.body # <<>>
    /\ app_meta # None

\* C16: the estimate is (None, Some(0)) for a record without currency code,
\* and (None, None) for a code that the rate table does not hold or rates
\* at zero or below, whatever the population and the rate table.
C16_EstimateWithoutRate ==
    estimate.called =>
        LET code == estimate.currency_code
            rates == estimate.rates
        IN  /\ code = None => estimate.out = <<None, Some(0)>>
            /\ (code # None /\ code[1] \notin DOMAIN rates) =>
                  estimate.out = <<None, None>>
            /\ (code # None /\ code[1] \in DOMAIN rates /\ rates[code[1]] <= 0) =>
                  estimate.out = <<None, None>>

\* C16 witness: the estimate was evaluated for a code rated at zero or below
\* on a positive population, in a table that rates another code above zero
C16_Witness ==
    /\ estimate.called
    /\ estimate.population > 0
    /\ estimate.currency_code = Some(NGN)
    /\ DOMAIN estimate.rates = {NGN, GHS}
    /\ estimate.rates[NGN] <= 0
    /\ estimate.rates[GHS] > 0

\* C17: for a code rated above zero (and a population that is not negative)
\* the exchange rate is that rate and the estimate lies between
\* population*1000/rate and population*2000/rate, both included, whatever
\* multiplier is drawn.
C17_EstimateWithinInterval ==
    estimate.called =>
        LET code == estimate.currency_code
            rates == estimate.rates
            population == estimate.population
        IN  (/\ code # None
             /\ code[1] \in DOMAIN rates
             /\ rates[code[1]] > 0
             /\ population >= 0) =>
                /\ estimate.out[1] = Some(rates[code[1]])
                /\ estimate.out[2] # None
                /\ estimate.out[2][1] >= (population * 1000) \div rates[code[1]]
                /\ estimate.out[2][1] <= (population * 2000) \div rates[code[1]]

\* C17 witness: an estimate strictly inside the interval, for a rate other
\* than 1
C17_Witness ==
    /\ estimate.called
    /\ estimate.currency_code = Some(GHS)
    /\ GHS \in DOMAIN estimate.rates
    /\ estimate.rates[GHS] = 2
    /\ estimate.population = 2
    /\ estimate.out = <<Some(2), Some(1500)>>

\* C18: a successful refresh that began on a store bearing a provenance
\* record leaves a provenance timestamp strictly later than that one,
\* whatever its catalog, an empty or an unchanged one included (the clock
\* having moved on since the earlier refresh read it).
C18_ProvenanceAdvances ==
    \A p \in Procs :
        (Succeeded(p) /\ hist[p].pre_meta # None) =>
            /\ app_meta # None
            /\ app_meta[1] > hist[p].pre_meta[1]
            /\ result[p].last_refreshed_at > hist[p].pre_meta[1]

\* C18 witness: a refresh with an empty catalog has succeeded on a store
\* that held rows and a provenance record
C18_Witness ==
    \E p \in Procs :
        /\ Succeeded(p)
        /\ hist[p].pre_meta # None
        /\ rc_countries[p] = <<>>
        /\ countries # <<>>

\* the stored row of key k carries the values refresh p derived for it
RowIsOf(p, k) ==
    LET c == LastRecord(p, k)
        population == IF c.population = None THEN 0 ELSE c.population[1]
    IN  /\ countries[k].capital = TrimOpt(c.capital)
        /\ countries[k].region = TrimOpt(c.region)
        /\ countries[k].population = population
        /\ countries[k].currency_code = FirstCode(c)
        /\ countries[k].flag_url = TrimOpt(c.flag)
        /\ \E m \in Multipliers :
              <<countries[k].exchange_rate, countries[k].estimated_gdp>>
                  = Estimate(population, FirstCode(c), rates_resp[p], m)

\* C11: when two refreshes in flight together have both committed, every
\* row that both upserted carries, in every attribute, the values of the one
\* that committed last.
C11_LastCommitWins ==
    \A p \in Procs, q \in Procs :
        (/\ p # q
         /\ hist[p].committed
         /\ hist[q].committed
         /\ q \in hist[p].after) =>
            \A k \in CatalogKeys(p) \cap CatalogKeys(q) :
                /\ k \in DOMAIN countries
                /\ RowIsOf(p, k)

\* C11 witness: two overlapping refreshes have committed, and for a key of
\* both their catalogs they derived different values
C11_Witness ==
    \E p \in Procs, q \in Procs :
        /\ p # q
        /\ hist[p].committed
        /\ hist[q].committed
        /\ q \in hist[p].after
        /\ \E k \in CatalogKeys(p) \cap CatalogKeys(q) :
              LastRecord(p, k).capital # LastRecord(q, k).capital

\* C12: while refreshes and readers run together, the rows and the
\* provenance record that statements on the pool read change only in the step
\* in which a transaction commits, and then by all its upserts and its
\* provenance write at once; and a status answer that counts rows carries a
\* provenance timestamp.
C12_ReadersSeeCommittedOnly ==
    /\ []((response.handler = "status" /\ response.kind = "Ok"
             /\ response.matched > 0) => response.ts # None)
    /\ [][(countries' # countries \/ app_meta' # app_meta) =>
             \E p \in Procs :
                /\ CommitStep(p)
                /\ DOMAIN tx[p].rows = CatalogKeys(p)
                /\ tx[p].meta = Some(now_iso[p])
                /\ countries' = Overlay(countries, tx[p].rows)
                /\ app_meta' = tx[p].meta]_vars

\* C12 witness: a status request has been answered while a transaction
\* held a row that the store did not yet hold
C12_Witness ==
    /\ response.handler = "status"
    /\ response.kind = "Ok"
    /\ response.matched = Cardinality(DOMAIN countries)
    /\ \E p \in Procs :
          /\ tx[p].open
          /\ \E k \in DOMAIN tx[p].rows : k \notin DOMAIN countries

\* C21 (as claimed): every stored row is within the bounds of the data model,
\* whatever catalog the source returned: its population is not below zero,
\* its exchange rate is absent or above zero, and its estimate is absent or
\* not below zero.
C21_StoredRowsWithinBounds ==
    \A k \in DOMAIN countries : RowWithinBounds(countries[k])

\* C22: the store holds at most one row for each natural key, two names
\* being the same key when they are equal once trimmed and case is ignored,
\* also when a catalog lists a key twice and when two refreshes upsert the
\* same new key; and an upsert whose row no other transaction holds can go
\* through, whether or not the key is already there.
C22_OneRowPerKey ==
    /\ \A j, k \in DOMAIN countries :
          KeyOf(Trim(countries[j].name)) = KeyOf(Trim(countries[k].name)) => j = k
    /\ \A p \in Procs :
          (/\ pc[p] = "upsert"
           /\ KeyOf(Trim(rc_countries[p][idx[p]].name)) \notin LockedByOthers(p)) =>
              ENABLED (Upsert(p) /\ ~hist'[p].tx_failed)

\* C22 witness: two refreshes have committed, each began on a store without
\* the key "n" and each upserted it, one of them from a catalog that lists
\* it twice
C22_Witness ==
    /\ \A p \in Procs :
          /\ hist[p].committed
          /\ KeyOf(<<"n">>) \in CatalogKeys(p)
          /\ KeyOf(<<"n">>) \notin DOMAIN hist[p].pre_countries
    /\ \E p \in Procs : ~DistinctKeys(p)
    /\ KeyOf(<<"n">>) \in DOMAIN countries

\* the upsert of p waits for a row that another transaction holds
Waits(p) ==
    /\ pc[p] = "upsert"
    /\ KeyOf(Trim(rc_countries[p][idx[p]].name)) \in LockedByOthers(p)

\* C23: a refresh that has opened its transaction comes to its end: the
\* transaction commits or rolls back and the call returns a result, also
\* when another refresh upserts the same keys in the opposite order; and a
\* call that has returned holds no open transaction.
C23_RefreshEnds ==
    /\ [](\A p \in Procs :
            pc[p] = "done" =>
                /\ ~tx[p].open
                /\ result[p].kind # "none"
                /\ hist[p].began => (hist[p].committed \/ hist[p].tx_failed))
    /\ \A p \in Procs : tx[p].open ~> (pc[p] = "done" /\ ~tx[p].open)

\* C23 witness: two refreshes took the same two keys in opposite orders and
\* each waits for the row the other holds
C23_Witness ==
    /\ \A p \in Procs : tx[p].open /\ Waits(p)
    /\ \E p, q \in Procs : rc_countries[p] # rc_countries[q]

\* C24 (as claimed): the renderer makes the directory of the path when it is
\* absent at render time: a render that finds the directory missing can
\* still write the file and end well.
C24_RenderCreatesDirectory ==
    \A p \in Procs :
        (pc[p] = "render_top5" /\ ~dir) =>
            ENABLED (Render(p) /\ hist'[p].render = "ok" /\ image')

\* the rules of a list request, the currency counted in characters
InvalidList(q) ==
    \/ q.sort # None /\ q.sort[1] \notin AllowedSorts
    \/ q.page # None /\ q.page[1] < 1
    \/ q.limit # None /\ (q.limit[1] < 1 \/ q.limit[1] > MaxLimit)
    \/ q.currency # None /\ Len(q.currency[1]) # 3

\* C25 (as claimed): a list request with a sort outside the four, a page
\* below 1, a limit outside 1..200 or a currency that is not 3 characters
\* long is answered with the validation error and no statement is sent to
\* the store.
C25_InvalidListRejected ==
    (response.handler = "list" /\ InvalidList(response.arg)) =>
        (response.kind = "Validation" /\ response.db = "none")

\* C26 (as claimed): the stored provenance never goes back: of two refreshes
\* that committed, the one that committed later wrote an instant that is not
\* earlier than the one the first wrote.
C26_ProvenanceNeverDecreases ==
    \A p, q \in Procs :
        (hist[q].committed /\ p \in hist[q].after) => now_iso[p] <= now_iso[q]

\* C27 (as claimed): the total and the top 5 of one rendered summary come
\* from the same committed state of the store: the total the summary shows
\* is the number of rows the table held when the top 5 were read, also when
\* another refresh commits in between.
C27_SummaryFromOneState ==
    \A p \in Procs :
        hist[p].render = "ok" => hist[p].total = hist[p].at_top5

====
